---- MODULE Spec2Model ----
(***************************************************************************)
(* The simulation and parameter-mapping core of the MIDI visuals sketch.   *)
(*                                                                         *)
(* Two revisions of the sketch are modelled side by side, selected by the  *)
(* variable "variant":                                                     *)
(*   "bounce"  - src/unnamed/part_001 (walls bounce, pair collisions       *)
(*               repel, no spawn or despawn on terrain hits)               *)
(*   "despawn" - src/src/index.js, lines 526-1972 (walls wrap, pair        *)
(*               collisions and the 5th terrain hit despawn, the first     *)
(*               terrain hit spawns)                                       *)
(*                                                                         *)
(* Numbers are fixed point.  Control values (faderValues, smoothedValues)  *)
(* are multiples of 1/Unit.  Mapped parameters are in thousandths of their *)
(* source unit (size 0.5 is 500), angles in thousandths of a degree        *)
(* (PI/4 is 45000), lengths and positions in tenths of a world unit        *)
(* (terrainSize 500 is 5000).  Sequences are 1-based: channel i of the     *)
(* source is index i+1, particle index i of the source is index i+1.       *)
(***************************************************************************)
EXTENDS Integers, Sequences, FiniteSets, TLC

VARIABLES
    variant,          \* which revision of the sketch runs
    simulationState,  \* 'running' | 'paused' | 'reset'
    frameCount,       \* p.frameCount
    faderValues,      \* midiParams.faderValues
    smoothedValues,   \* midiParams.smoothedValues
    faderMappings,    \* midiParams.faderMappings
    surface,          \* what initMidi found, the slider panels in the page,
                      \* showSettings
    organicModel,     \* particles, connections, terrain, baked parameters, queues
    cameraParams,     \* zRotation, xRotation, yRotation
    forceParams,      \* vortexStrength, gravityStrength
    tick,             \* history of the last frame: what updateOrganicModel did
    budget            \* history: events handled and ticks run so far

vars == <<variant, simulationState, frameCount, faderValues, smoothedValues,
          faderMappings, surface, organicModel, cameraParams, forceParams, tick, budget>>

-----------------------------------------------------------------------------
(* Bounds of the model *)

\* control values are multiples of 1/Unit
Unit == 1000
\* frames explored from setup
MaxFrames == 3
\* control-surface events explored in one behaviour
MaxEvents == 1
\* downward displacement of a disturbed particle in one tick (tenths)
Drop == 600
\* offset of a particle spawned next to its parent (tenths), inside (-200, 200)
SpawnOffset == 190
\* the lattice on which p.random() places new particles
LayoutCols == 12
Pitch == 380
\* sideways displacement of a disturbed particle in one tick (tenths)
Shove == 200
\* normal velocity of a falling particle (thousandths of a unit per tick)
FallSpeed == 1000
\* frames explored when the debounce is followed, and the pause keys pressed
Horizon == 23
MaxPauses == 2
\* the distance at which the fixed-point smoother comes to rest (1/Unit)
SmoothEps == 3
\* events and frames explored when the control surface is followed
ControlEvents == 3
ControlFrames == 2
\* events and frames explored when the density faders are followed
DensityEvents == 2
DensityFrames == 3

-----------------------------------------------------------------------------
(* Program constants *)

numParticles == 150
minParticles == 10
terrainResolution == 30
terrainSize == 5000
NumChannels == 14
FirstGesture == 9
DebounceFrames == 10
HitLimit == 5
MaxNeighbours == 5

-----------------------------------------------------------------------------
(* Arithmetic helpers *)

Abs(n) == IF n < 0 THEN -n ELSE n

Min(a, b) == IF a < b THEN a ELSE b

Max(a, b) == IF a > b THEN a ELSE b

\* n / d rounded to the nearest integer (d > 0), as floating point rounds
RoundDiv(n, d) == (2 * n + d) \div (2 * d)

\* p.map(n, start1, stop1, start2, stop2)
pmap(n, start1, stop1, start2, stop2) ==
    ((n - start1) * (stop2 - start2)) \div (stop1 - start1) + start2

\* p.constrain(n, low, high)
constrain(n, low, high) == Max(Min(n, high), low)

Channels == 1..NumChannels

\* F applied to a value that is computed once
With(value, F(_)) == F(value)

\* a sequence given by a rule, with its elements computed once
Tuple(s) == s \o <<>>

-----------------------------------------------------------------------------
(* Gesture smoother *)

\* smoothingFactor 0.15, in hundredths
smoothingFactor == 15

\* one gesture channel with the adaptive factor 1 + 20r in place of 1 + 2r
SmoothOneSteep(s, r) ==
    s + RoundDiv((r - s) * smoothingFactor * (Unit + 20 * r), 100 * Unit)

\* one gesture channel: s + (r - s) * smoothingFactor * (1 + 2r)
SmoothOne(s, r) ==
    s + RoundDiv((r - s) * smoothingFactor * (Unit + 2 * r), 100 * Unit)

smoothGestureValues(sm, fv) ==
    [i \in Channels |-> IF i >= FirstGesture THEN SmoothOne(sm[i], fv[i]) ELSE fv[i]]

-----------------------------------------------------------------------------
(* Parameter mapper: the locals and the camera/force assignments at the    *)
(* head of updateOrganicModel                                              *)

\* p.map(tiltFront - tiltBack, ...) with the input range taken as 0..1
zRotationValueFromZero(tiltFront, tiltBack) ==
    pmap(tiltFront - tiltBack, 0, Unit, -45000, 45000)

\* p.map(tiltFront - tiltBack, -1, 1, -PI/4, PI/4)
zRotationValue(tiltFront, tiltBack) ==
    pmap(tiltFront - tiltBack, -Unit, Unit, -45000, 45000)

\* p.map(liftRight - liftLeft, -1, 1, -PI/4, PI/4)
xRotationValue(liftRight, liftLeft) ==
    pmap(liftRight - liftLeft, -Unit, Unit, -45000, 45000)

MapParams(v, sm) ==
    LET common ==
          [ size              |-> pmap(sm[1], 0, Unit, 500, 2000),
            speed             |-> pmap(sm[2], 0, Unit, 100, 2000),
            randomness        |-> pmap(sm[5], 0, Unit, 10, 200),
            particleDensity   |-> pmap(sm[6], 0, Unit, 200, 1000),
            terrainHeight     |-> pmap(sm[8], 0, Unit, 200, 2000),
            zRotation         |-> zRotationValue(sm[9], sm[10]),
            xRotation         |-> xRotationValue(sm[11], sm[12]),
            rotationInput     |-> sm[13] - sm[14],
            vortexStrength    |-> pmap(sm[9] + sm[10], 0, 2 * Unit, 0, 50),
            gravityStrength   |-> pmap(sm[11] + sm[12], 0, 2 * Unit, 0, 100) ]
    IN  IF v = "bounce"
        THEN common @@ [ gravity           |-> pmap(sm[3], 0, Unit, 10, 200),
                         turbulence        |-> pmap(sm[4], 0, Unit, 10, 300),
                         connectionDensity |-> pmap(sm[7], 0, Unit, 0, 1000) ]
        ELSE common @@ [ complexity        |-> pmap(sm[3], 0, Unit, 500, 3000),
                         colorHue          |-> pmap(sm[4], 0, Unit, 0, 360000),
                         connectionDensity |-> pmap(sm[7], 0, Unit, 200, 1000) ]

\* JavaScript's %: the remainder takes the sign of the dividend
JsRem(a, b) == IF a >= 0 THEN a % b ELSE -((-a) % b)

\* the yaw detent without its threshold
StepYawAlways(yaw, rotationInput) ==
    IF rotationInput # 0
    THEN JsRem((IF rotationInput > 0 THEN yaw + 15000 ELSE yaw - 15000) + 360000, 360000)
    ELSE yaw

\* the 15-degree yaw detent
StepYaw(yaw, rotationInput) ==
    IF 2 * Abs(rotationInput) > Unit
    THEN JsRem((IF rotationInput > 0 THEN yaw + 15000 ELSE yaw - 15000) + 360000, 360000)
    ELSE yaw

-----------------------------------------------------------------------------
(* Terrain.  p.noise is a fixed pseudo-random field; the model uses a hash *)
(* with values in [0, 1000) and a terrain that is constant along z.        *)

Noise(k) == (k * 617 + 89) % 1000

\* one terrain vertex height for grid column gx, terrain height h
VertexHeight(v, gx, h) ==
    LET baseNoise   == Noise(gx)
        detailNoise == (3 * Noise(3 * gx + 1)) \div 10
        microNoise  == (15 * Noise(8 * gx + 2)) \div 100
        ridgeNoise  == Abs(Noise(2 * gx + 3) - 500) \div 2
    IN  IF v = "bounce"
        THEN pmap(baseNoise + detailNoise + microNoise + ridgeNoise, 0, 1800,
                  -(h \div 2), h \div 2)
        ELSE pmap(baseNoise + detailNoise, 0, 1300, -(h \div 2), h \div 2)

\* the heights of the grid columns; column gx of the source is entry gx + 1
generateTerrain(v, h) ==
    Tuple([g \in 1..terrainResolution |-> VertexHeight(v, g - 1, h)])

\* Math.floor(p.map(c, -size/2, size/2, 0, resolution-1))
GridOf(c) ==
    ((c + terrainSize \div 2) * (terrainResolution - 1)) \div terrainSize

InGrid(g) == g >= 0 /\ g < terrainResolution - 1

\* checkTerrainCollision(particle): collision, and terrainHeight, which is
\* -Infinity (finite = FALSE) when no collision is reported
checkTerrainCollision(om, p) ==
    LET gridX == GridOf(p.x)
        gridZ == GridOf(p.z)
        rem   == ((p.x + terrainSize \div 2) * (terrainResolution - 1)) % terrainSize
        p00   == om.terrain[gridX + 1]
        p10   == om.terrain[gridX + 2]
        th    == p00 + ((p10 - p00) * rem) \div terrainSize
        \* penetrationDepth = (terrainHeight + size * 0.5) - position.y > 0
        deep  == \/ p.yk = "ninf"
                 \/ p.yk = "fin" /\ (th + p.size \div 2) - p.y > 0
    IN  IF InGrid(gridX) /\ InGrid(gridZ) /\ deep
        THEN [collision |-> TRUE,  finite |-> TRUE,  terrainHeight |-> th]
        ELSE [collision |-> FALSE, finite |-> FALSE, terrainHeight |-> 0]

-----------------------------------------------------------------------------
(* Particles *)

\* createParticle(x, y, z) at a given place; k seeds the noise lookups
NewParticle(k, x, y, yk, z) ==
    LET fixedSize == pmap(Noise(5 * k + 7), 0, 1000, 40, 120)
    IN  [ x |-> x, y |-> y, yk |-> yk, z |-> z, vn |-> 0,
          size |-> fixedSize, fixedSize |-> fixedSize,
          terrainHits |-> 0, lastCollisionTime |-> 0,
          hitTick |-> 0, closeHits |-> FALSE ]

\* The places p.random() gives to the particles created without coordinates.
\* "spread": the k-th particle of the array sits alone on a lattice of
\* LayoutCols columns, Pitch apart, whose first site is next to the +x and -z
\* walls.  "paired": particles 2m and 2m+1 are created a world unit apart.
Layouts == {"spread", "paired"}

Sites == LayoutCols * (LayoutCols + 1)

SiteOf(layout, k) == (IF layout = "paired" THEN 2 * (k \div 2) ELSE k) % Sites

SiteX(layout, k) ==
    2400 - Pitch * (SiteOf(layout, k) % LayoutCols)
         - (IF layout = "paired" THEN 10 * (k % 2) ELSE 0)

SiteZ(layout, k) == -2400 + Pitch * (SiteOf(layout, k) \div LayoutCols)

\* createParticle(): random x and z, y from the noise field and the baked
\* terrain height h; k is the index the particle gets in the array
createParticle(h, layout, k) ==
    NewParticle(k, SiteX(layout, k),
                pmap(Noise(SiteOf(layout, k)), 0, 1000, -(h \div 2), h \div 2),
                "fin", SiteZ(layout, k))

\* stands for a distance that is not finite
Far == 80 * terrainSize * terrainSize

\* squared distance of two particles
Dist2(a, b) ==
    LET dx == Abs(a.x - b.x)
        dz == Abs(a.z - b.z)
        dy == Abs(a.y - b.y)
    IN  IF a.yk # "fin" \/ b.yk # "fin" THEN Far
        ELSE dx * dx + dy * dy + dz * dz

\* distance < (particleA.size + particleB.size) * 0.8
Colliding(a, b) ==
    LET s == a.size + b.size
    IN  /\ a.yk = "fin" /\ b.yk = "fin"
        /\ Abs(a.x - b.x) <= s /\ Abs(a.y - b.y) <= s /\ Abs(a.z - b.z) <= s
        /\ 25 * Dist2(a, b) < 16 * s * s

-----------------------------------------------------------------------------
(* Connections *)

\* the distance list of one particle sorted by distance: a < b (the sort is
\* stable: ties keep index order)
Nearer(a, b) == a[1] < b[1] \/ (a[1] = b[1] /\ a[2] <= b[2])

\* the first k entries of the sorted distance list, given as a set of
\* <<squared distance, index>>
RECURSIVE Closest(_, _)
Closest(distances, k) ==
    IF k = 0 THEN <<>>
    ELSE LET first == CHOOSE a \in distances : \A b \in distances : Nearer(a, b)
         IN  <<first>> \o Closest(distances \ {first}, k - 1)

\* numConnections of createConnections for n particles
numConnections(v, n, cd) ==
    LET maxPossibleConnections == Min(MaxNeighbours, n - 1)
        byDensity == (maxPossibleConnections * cd) \div 1000
    IN  IF v = "bounce" THEN byDensity ELSE Max(1, byDensity)

\* createConnections(): throws is TRUE when distances[k] is read past the end
\* of the list (a TypeError), and then nothing is returned
createConnections(v, ps, cd) ==
    LET n == Len(ps)
        k == numConnections(v, n, cd)
        row(i) == LET distances == {<<Dist2(ps[i], ps[j]), j>> : j \in (1..n) \ {i}}
                      near == Closest(distances, k)
                  IN  [m \in 1..k |-> [from |-> i, to |-> near[m][2],
                                       finiteLen |-> near[m][1] # Far]]
        rows == Tuple([i \in 1..n |-> Tuple(row(i))])
    IN  IF (v = "bounce" /\ cd <= 0) \/ n = 0 \/ k = 0
        THEN [throws |-> FALSE, connections |-> <<>>]
        ELSE IF k > n - 1
        THEN [throws |-> TRUE, connections |-> <<>>]
        ELSE [throws |-> FALSE,
              connections |-> Tuple([c \in 1..(n * k) |->
                                  rows[((c - 1) \div k) + 1][((c - 1) % k) + 1]])]

\* initOrganicModel() without its particle loop: the particles are kept
initOrganicModelKeeping(v, om, layout) ==
    [om EXCEPT !.terrain = generateTerrain(v, om.terrainHeight),
               !.connections = createConnections(v, om.particles,
                                                 om.connectionDensity).connections]

\* initOrganicModel(): terrain, floor(numParticles * particleDensity)
\* particles, connections
initOrganicModel(v, om, layout) ==
    LET actualParticles == (numParticles * om.particleDensity) \div 1000
        ps == Tuple([k \in 1..actualParticles |->
                        createParticle(om.terrainHeight, layout, k - 1)])
        cc == createConnections(v, ps, om.connectionDensity)
    IN  [om EXCEPT !.terrain = generateTerrain(v, om.terrainHeight),
                   !.particles = ps,
                   !.connections = cc.connections]

-----------------------------------------------------------------------------
(* One simulation tick: updateOrganicModel.                                *)
(*                                                                         *)
(* The forces (turbulence, vortex, gravity, random impulses, pair          *)
(* repulsion), the Bezier pull, the noise drift and the finite corrections *)
(* of the connection constraints depend on p.random() and p.noise(); their *)
(* net effect on a tick is an input: the particles named by "who" are      *)
(* displaced by (dx, dy, dz), and a displaced particle that moves down     *)
(* arrives with the normal velocity -FallSpeed.                            *)

Moved(inp, i) == inp.who = "all" \/ (inp.who = "first" /\ i = 1)

\* the walls: clamp in the bounce revision, wrap in the despawn revision
Wall(v, c) ==
    LET halfSize == terrainSize \div 2
    IN  IF c > halfSize THEN (IF v = "bounce" THEN halfSize ELSE -halfSize)
        ELSE IF c < -halfSize THEN (IF v = "bounce" THEN -halfSize ELSE halfSize)
        ELSE c

\* the particle after position.add(velocity * speed), the walls and the
\* ceiling (the bounce revision has a ceiling at 6 * terrainHeight)
Integrate(v, om, inp, i, p) ==
    LET moved == Moved(inp, i)
        y1 == IF moved /\ p.yk = "fin" THEN p.y + inp.dy ELSE p.y
    IN  [p EXCEPT !.x = Wall(v, IF moved THEN p.x + inp.dx ELSE p.x),
                  !.z = Wall(v, IF moved THEN p.z + inp.dz ELSE p.z),
                  !.y = IF v = "bounce" /\ p.yk = "fin"
                        THEN Min(y1, 6 * om.terrainHeight) ELSE y1,
                  !.vn = IF moved /\ inp.dy < 0 THEN -FallSpeed ELSE p.vn]

\* the terrain step and the size update for particle i at q, given the
\* outcome of checkTerrainCollision(q)
Land(v, om, mp, frame, count, i, q, terrainCollision) ==
    LET below   == q.yk = "ninf" \/ (q.yk = "fin" /\ q.y < -om.terrainHeight)
        hit     == terrainCollision.collision \/ below
        \* currentTime - particle.lastCollisionTime > 10
        counted == hit /\ frame - q.lastCollisionTime > DebounceFrames
        hits    == q.terrainHits + (IF counted THEN 1 ELSE 0)
        size    == (q.fixedSize * mp.size) \div 1000
    IN  [ p |-> IF ~hit THEN [q EXCEPT !.size = size]
                ELSE [q EXCEPT
                        !.terrainHits = hits,
                        !.lastCollisionTime = IF counted THEN frame ELSE @,
                        !.hitTick = IF counted THEN count ELSE @,
                        !.closeHits = @ \/ (counted /\ q.hitTick # 0
                                              /\ count - q.hitTick < DebounceFrames),
                        \* position.y = terrainCollision.terrainHeight + size * 0.8
                        !.y  = IF terrainCollision.finite
                               THEN terrainCollision.terrainHeight + (8 * q.size) \div 10
                               ELSE 0,
                        !.yk = IF terrainCollision.finite THEN "fin" ELSE "ninf",
                        \* v -= 2 (v.n) n;  v *= 0.7;  v += n * 0.5 * speed
                        !.vn = (-7 * q.vn) \div 10 + mp.speed \div 2,
                        !.size = size],
          hit    |-> hit,
          vnIn   |-> q.vn,
          collision |-> terrainCollision.collision,
          \* the bounds test of checkTerrainCollision at q
          inGrid |-> InGrid(GridOf(q.x)) /\ InGrid(GridOf(q.z)),
          surface |-> terrainCollision.terrainHeight,
          size   |-> q.size,
          spawn  |-> v = "despawn" /\ counted /\ hits = 1,
          child  |-> NewParticle(i, q.x + SpawnOffset,
                                 IF q.yk = "fin" THEN q.y + SpawnOffset ELSE 0,
                                 q.yk, q.z + SpawnOffset),
          remove |-> v = "despawn" /\ counted /\ hits >= HitLimit ]

\* the body of the particle loop for particle i, up to the size update
StepParticle(v, om, mp, frame, count, inp, i, p) ==
    With(Integrate(v, om, inp, i, p), LAMBDA q :
         Land(v, om, mp, frame, count, i, q, checkTerrainCollision(om, q)))

\* The pair-collision scan of the despawn revision, for the rows lo..hi of
\* its outer loop: row i marks i and the first colliding j > i that is not
\* marked yet, unless i is marked already.
RECURSIVE particleCollisions(_, _, _, _)
particleCollisions(ps, lo, hi, marked) ==
    IF lo > hi THEN marked
    ELSE IF lo = hi
    THEN LET seen == {marked[m] : m \in DOMAIN marked}
             js   == {j \in (lo + 1)..Len(ps) :
                         j \notin seen /\ Colliding(ps[lo], ps[j])}
         IN  IF lo \in seen \/ js = {} THEN marked
             ELSE marked \o <<lo, CHOOSE j \in js : \A j2 \in js : j <= j2>>
    ELSE LET mid == (lo + hi) \div 2
             left == particleCollisions(ps, lo, mid, marked)
         IN  \* the rows lo..mid are scanned before the rows mid+1..hi
             IF Len(left) >= 0 THEN particleCollisions(ps, mid + 1, hi, left)
             ELSE left

\* The connection constraints lo..hi when a position is not finite: the
\* distance of a connection with a finite maxLength from a particle at
\* -Infinity to a finite one is Infinity, the normalised direction is NaN,
\* and both ends receive it.
RECURSIVE ApplyConstraints(_, _, _, _)
ApplyConstraints(ps, conns, lo, hi) ==
    IF lo > hi THEN ps
    ELSE IF lo = hi
    THEN LET a == conns[lo].from
             b == conns[lo].to
             spreads == /\ a <= Len(ps) /\ b <= Len(ps)
                        /\ conns[lo].finiteLen
                        /\ {ps[a].yk, ps[b].yk} = {"fin", "ninf"}
         IN  IF spreads THEN [ps EXCEPT ![a].yk = "nan", ![a].y = 0,
                                        ![b].yk = "nan", ![b].y = 0]
             ELSE ps
    ELSE LET mid == (lo + hi) \div 2
             left == ApplyConstraints(ps, conns, lo, mid)
         IN  \* the constraints lo..mid are applied before mid+1..hi
             IF Len(left) >= 0 THEN ApplyConstraints(left, conns, mid + 1, hi)
             ELSE left

\* the terrain-height hysteresis at the head of the tick
BakeTerrain(v, om, mp) ==
    IF Abs(om.terrainHeight - mp.terrainHeight) > 50
    THEN [om EXCEPT !.terrainHeight = mp.terrainHeight,
                    !.terrain = generateTerrain(v, mp.terrainHeight)]
    ELSE om

\* positions and velocities of the old particles carried over to the new
Transfer(old, new) ==
    Tuple([i \in 1..Len(new) |->
        IF i <= Min(Len(old), Len(new))
        THEN [new[i] EXCEPT !.x = old[i].x, !.y = old[i].y, !.yk = old[i].yk,
                            !.z = old[i].z, !.vn = old[i].vn]
        ELSE new[i]])

\* the density block once the densities are baked
Reinitialise(v, baked, mp, layout) ==
    IF v = "bounce" /\ Abs(baked.connectionDensity - mp.connectionDensity) > 100
    THEN \* only the connections
         [om |-> [baked EXCEPT !.connections =
                     createConnections(v, baked.particles,
                                       baked.connectionDensity).connections],
          initCalls |-> 0]
    ELSE \* initOrganicModel and the transfer of the old positions
         [om |-> [initOrganicModel(v, baked, layout)
                     EXCEPT !.particles = Transfer(baked.particles, @)],
          initCalls |-> 1]

\* the density block with the particle density baked after the
\* re-initialisation instead of before it
BakeDensityStale(v, om, mp, layout) ==
    IF \/ Abs(om.particleDensity - mp.particleDensity) > 100
       \/ Abs(om.connectionDensity - mp.connectionDensity) > 100
    THEN With(Reinitialise(v, [om EXCEPT !.connectionDensity = mp.connectionDensity],
                           mp, layout), LAMBDA done :
              [done EXCEPT !.om.particleDensity = mp.particleDensity])
    ELSE [om |-> om, initCalls |-> 0]

\* the density block: bakes both densities and re-initialises
BakeDensity(v, om, mp, layout) ==
    IF \/ Abs(om.particleDensity - mp.particleDensity) > 100
       \/ Abs(om.connectionDensity - mp.connectionDensity) > 100
    THEN Reinitialise(v, [om EXCEPT !.particleDensity = mp.particleDensity,
                                    !.connectionDensity = mp.connectionDensity],
                      mp, layout)
    ELSE [om |-> om, initCalls |-> 0]

\* queue.sort((a, b) => b - a) for indices in 1..top: the m-th entry is the
\* largest v that at least m entries reach
sortDescending(queue, top) ==
    With(Tuple([v \in 1..top |->
                  Cardinality({m \in DOMAIN queue : queue[m] >= v})]), LAMBDA reach :
         Tuple([m \in 1..Len(queue) |->
                  Cardinality({v \in 1..top : reach[v] >= m})]))

\* [...new Set(queue)]: the first occurrence of every entry, in order
Unique(queue) ==
    With(SelectSeq(Tuple([m \in 1..Len(queue) |-> [at |-> m, index |-> queue[m]]]),
                   LAMBDA e : \A m \in 1..(e.at - 1) : queue[m] # e.index),
         LAMBDA firsts : Tuple([m \in 1..Len(firsts) |-> firsts[m].index]))

\* particles.splice(index, 1) under its range test
SpliceOne(ps, index) ==
    IF index >= 1 /\ index <= Len(ps)
    THEN SubSeq(ps, 1, index - 1) \o SubSeq(ps, index + 1, Len(ps))
    ELSE ps

\* the removal loop over queue[lo..hi], in queue order
RECURSIVE SpliceEach(_, _, _, _)
SpliceEach(ps, queue, lo, hi) ==
    IF lo > hi THEN ps
    ELSE IF lo = hi THEN SpliceOne(ps, queue[lo])
    ELSE With(SpliceEach(ps, queue, lo, (lo + hi) \div 2), LAMBDA left :
              IF Len(left) >= 0
              THEN SpliceEach(left, queue, ((lo + hi) \div 2) + 1, hi)
              ELSE left)

\* the removal loop without the sort
SpliceUnsorted(ps, queue) ==
    With(Unique(queue), LAMBDA indices : SpliceEach(ps, indices, 1, Len(indices)))

\* the particles left by the removal pass: the queue is sorted descending,
\* its duplicates are dropped, and every index is spliced out
Splice(ps, queue) ==
    With(Unique(sortDescending(queue, Len(ps))), LAMBDA indices :
         SpliceEach(ps, indices, 1, Len(indices)))

\* organicModel.connections = createConnections(), which may throw
Recreate(v, r) ==
    With(createConnections(v, r.om.particles, r.om.connectionDensity), LAMBDA cc :
         [r EXCEPT !.threw = cc.throws,
                   !.om.connections = IF cc.throws THEN @ ELSE cc.connections])

\* add new particles from the queue
AddPass(v, r) ==
    IF Len(r.om.particlesToAdd) > 0
    THEN Recreate(v, [r EXCEPT !.om.particles = @ \o r.om.particlesToAdd,
                               !.om.particlesToAdd = <<>>])
    ELSE r

\* remove particles marked for deletion; left is the count after the pass
RemovePass(v, r) ==
    IF Len(r.om.particlesToRemove) > 0
    THEN With(Splice(r.om.particles, r.om.particlesToRemove), LAMBDA kept :
              Recreate(v, [r EXCEPT
                              !.om.particles = kept,
                              !.om.particlesToRemove = <<>>,
                              !.left = Len(kept)]))
    ELSE [r EXCEPT !.left = Len(r.om.particles)]

\* spawn up to minParticles
SpawnPass(v, r) ==
    IF Len(r.om.particles) < minParticles
    THEN Recreate(v, [r EXCEPT !.om.particles =
                        @ \o Tuple([m \in 1..(minParticles - Len(r.om.particles)) |->
                                      createParticle(r.om.terrainHeight, "spread",
                                                     Len(r.om.particles) + m - 1)])])
    ELSE r

\* a throw ends the tick where it stands
AndThen(r, Pass(_)) == IF r.threw THEN r ELSE Pass(r)

\* the three batch passes that end the tick
BatchPasses(v, om) ==
    AndThen(AndThen(AddPass(v, [om |-> om, threw |-> FALSE, left |-> -1]),
                    LAMBDA r : RemovePass(v, r)),
            LAMBDA r : SpawnPass(v, r))

\* the particles the loop queues for addition, in loop order
Children(res) ==
    With(SelectSeq(res, LAMBDA e : e.spawn), LAMBDA spawners :
         Tuple([m \in 1..Len(spawners) |-> spawners[m].child]))

\* the removal queue of a loop that pushes i + 1 where the code pushes i
RemovalsShifted(res) ==
    With(SelectSeq(Tuple([i \in 1..Len(res) |-> [at |-> i, remove |-> res[i].remove]]),
                   LAMBDA e : e.remove), LAMBDA removed :
         Tuple([m \in 1..Len(removed) |-> removed[m].at + 1]))

\* the indices the loop queues for removal, in loop order
Removals(res) ==
    With(SelectSeq(Tuple([i \in 1..Len(res) |-> [at |-> i, remove |-> res[i].remove]]),
                   LAMBDA e : e.remove), LAMBDA removed :
         Tuple([m \in 1..Len(removed) |-> removed[m].at]))

\* the tick from the pair scan on, for the baked model dens.om
Simulate(v, om, dens, mp, frame, count, inp) ==
    With(Tuple([i \in 1..Len(dens.om.particles) |->
                  StepParticle(v, dens.om, mp, frame, count, inp, i,
                               dens.om.particles[i])]), LAMBDA res :
    With(Tuple([i \in 1..Len(res) |-> res[i].p]), LAMBDA stepped :
    With(BatchPasses(v,
           [dens.om EXCEPT
              !.particles =
                  IF \E i \in 1..Len(res) : stepped[i].yk = "ninf"
                  THEN ApplyConstraints(stepped, dens.om.connections, 1,
                                        Len(dens.om.connections))
                  ELSE stepped,
              !.particlesToAdd = @ \o Children(res),
              !.particlesToRemove =
                  @ \o (IF v = "despawn"
                        THEN particleCollisions(dens.om.particles, 1, Len(res), <<>>)
                        ELSE <<>>)
                    \o Removals(res)]), LAMBDA batch :
         [ organicModel |-> batch.om,
           tick |-> [ ran |-> TRUE, threw |-> batch.threw, count |-> count,
                      mp |-> mp, initCalls |-> dens.initCalls,
                      \* the baked particle density and the count before the tick
                      particleDensity |-> om.particleDensity,
                      connectionDensity |-> om.connectionDensity,
                      \* the baked terrain height before the tick, and the
                      \* executions of generateTerrain: one by the hysteresis
                      \* branch when it bakes a new height, one by every
                      \* initOrganicModel
                      terrainHeight |-> om.terrainHeight,
                      terrainCalls |-> (IF dens.om.terrainHeight # om.terrainHeight
                                        THEN 1 ELSE 0) + dens.initCalls,
                      before |-> Len(om.particles),
                      left |-> batch.left,
                      \* terrainHits of every particle of the loop, before and
                      \* after its step, and what the loop queued
                      hits |-> Tuple([i \in 1..Len(res) |->
                                        [before |-> dens.om.particles[i].terrainHits,
                                         after |-> res[i].p.terrainHits]]),
                      queuedToAdd |-> Len(Children(res)),
                      queuedToRemove |-> Removals(res),
                      \* what the terrain step did to the particles it acted on
                      landings |-> {[collision |-> res[i].collision,
                                     inGrid |-> res[i].inGrid,
                                     surface |-> res[i].surface,
                                     size |-> res[i].size,
                                     y |-> res[i].p.y, yk |-> res[i].p.yk,
                                     vnIn |-> res[i].vnIn, vnOut |-> res[i].p.vn]
                                    : i \in {j \in 1..Len(res) : res[j].hit}} ] ])))

\* updateOrganicModel() smoothing towards the values it smoothed last, not
\* towards the raw values
updateOrganicModelStale(v, fv, sm, om, cam, frame, count, inp) ==
    With(smoothGestureValues(sm, sm), LAMBDA sm1 :
    With(MapParams(v, sm1), LAMBDA mp :
         [ smoothedValues |-> sm1,
           cameraParams |-> [cam EXCEPT !.zRotation = mp.zRotation,
                                        !.xRotation = mp.xRotation,
                                        !.yRotation = StepYaw(@, mp.rotationInput)],
           forceParams |-> [vortexStrength |-> mp.vortexStrength,
                            gravityStrength |-> mp.gravityStrength] ]
         @@ Simulate(v, om, BakeDensity(v, BakeTerrain(v, om, mp), mp, inp.layout),
                     mp, frame, count, inp)))

\* updateOrganicModel() while running: the new smoothed values, camera,
\* forces and model, and what the tick did
updateOrganicModel(v, fv, sm, om, cam, frame, count, inp) ==
    With(smoothGestureValues(sm, fv), LAMBDA sm1 :
    With(MapParams(v, sm1), LAMBDA mp :
         [ smoothedValues |-> sm1,
           cameraParams |-> [cam EXCEPT !.zRotation = mp.zRotation,
                                        !.xRotation = mp.xRotation,
                                        !.yRotation = StepYaw(@, mp.rotationInput)],
           forceParams |-> [vortexStrength |-> mp.vortexStrength,
                            gravityStrength |-> mp.gravityStrength] ]
         @@ Simulate(v, om, BakeDensity(v, BakeTerrain(v, om, mp), mp, inp.layout),
                     mp, frame, count, inp)))

-----------------------------------------------------------------------------
(* The state after p.setup *)

Variants == {"bounce", "despawn"}

\* midiParams.faderMappings as declared: 34..47
DefaultMappings == [i \in Channels |-> 33 + i]

NoTick == [ran |-> FALSE, threw |-> FALSE]

\* what a handler of the control surface did: the event it received and its
\* calls of showParamChangeNotification, as <<index, value>>
Handled(event, notified) ==
    [ran |-> FALSE, threw |-> FALSE, event |-> event, notified |-> notified]

\* organicModel as declared, before initOrganicModel
DeclaredModel ==
    [ particles |-> <<>>, connections |-> <<>>, terrain |-> <<>>,
      terrainHeight |-> 1000, particleDensity |-> 500, connectionDensity |-> 500,
      particlesToAdd |-> <<>>, particlesToRemove |-> <<>> ]

DeclaredCamera(v) ==
    [ radius |-> IF v = "bounce" THEN 3000 ELSE -3000,
      zRotation |-> 180000, xRotation |-> 0,
      yRotation |-> IF v = "bounce" THEN 135000 ELSE 225000,
      targetYRotation |-> IF v = "bounce" THEN 135000 ELSE 225000,
      mouseControl |-> FALSE ]

\* how WebMidi.enable() ends: with inputs, with no input, or rejected
MidiOutcomes == {"inputs", "none", "failed"}

\* initMidi after its await: the bounce revision calls createSliderControls
\* when there is no input and when enabling failed
initMidi(v, s, outcome) ==
    [s EXCEPT !.midi = outcome,
              !.sliderPanels = IF v = "bounce" /\ outcome \in {"none", "failed"}
                               THEN @ + 1 ELSE @]

\* initMidi is waiting for WebMidi.enable(); the settings panel is closed
Pending == [midi |-> "pending", sliderPanels |-> 0, showSettings |-> FALSE]

\* the sketch as declared, before p.setup has run
Declared ==
    /\ variant \in Variants
    /\ surface = Pending
    /\ faderMappings = DefaultMappings
    /\ simulationState = "running"
    /\ frameCount = 0
    /\ organicModel = DeclaredModel
    /\ cameraParams = DeclaredCamera(variant)
    /\ forceParams = [vortexStrength |-> 0, gravityStrength |-> 10000]
    /\ tick = NoTick
    /\ budget = [events |-> 0, ticks |-> 0]

\* the state p.setup leaves when initMidi is in one of the states surfaces
SetupWith(layouts, surfaces) ==
    /\ variant \in Variants
    /\ simulationState = "running"
    /\ frameCount = 0
    /\ faderValues = [i \in Channels |-> 0]
    /\ smoothedValues = [i \in Channels |-> 0]
    /\ faderMappings = DefaultMappings
    /\ surface \in surfaces
    /\ \E layout \in layouts :
          organicModel = initOrganicModel(variant, DeclaredModel, layout)
    /\ cameraParams = [DeclaredCamera(variant) EXCEPT !.mouseControl = TRUE]
    /\ forceParams = [vortexStrength |-> 0, gravityStrength |-> 10000]
    /\ tick = NoTick
    /\ budget = [events |-> 0, ticks |-> 0]

\* the state after p.setup, once WebMidi.enable() has ended
SetupState(layouts) ==
    \E v \in Variants :
        SetupWith(layouts, {initMidi(v, Pending, outcome) : outcome \in MidiOutcomes})
        /\ variant = v

-----------------------------------------------------------------------------
(* Frames and events *)

\* WebMidi.enable() ends and initMidi runs to its end
MidiEnabled(outcomes) ==
    /\ surface.midi = "pending"
    /\ \E outcome \in outcomes :
          /\ surface' = initMidi(variant, surface, outcome)
          /\ tick' = Handled([type |-> "enable", outcome |-> outcome], <<>>)
    /\ UNCHANGED <<variant, faderMappings, simulationState, frameCount, faderValues,
                   smoothedValues, organicModel, cameraParams, forceParams, budget>>

\* p.lerp(yRotation, targetYRotation, 0.1)
\* p.lerp with the sign of the step reversed
LerpYawAway(cam) ==
    IF cam.mouseControl
    THEN [cam EXCEPT !.yRotation = @ - RoundDiv(cam.targetYRotation - @, 10)]
    ELSE cam

LerpYaw(cam) ==
    IF cam.mouseControl
    THEN [cam EXCEPT !.yRotation = @ + RoundDiv(cam.targetYRotation - @, 10)]
    ELSE cam

\* p.draw with an updateOrganicModel that does not test simulationState
DrawUnpaused(frames, inputs) ==
    /\ frameCount < frames
    /\ frameCount' = frameCount + 1
    /\ IF simulationState \in {"running", "paused"}
       THEN \E inp \in inputs :
              \E r \in {updateOrganicModel(variant, faderValues, smoothedValues,
                                           organicModel, LerpYaw(cameraParams),
                                           frameCount + 1, budget.ticks + 1, inp)} :
                  /\ smoothedValues' = r.smoothedValues
                  /\ organicModel' = r.organicModel
                  /\ cameraParams' = r.cameraParams
                  /\ forceParams' = r.forceParams
                  /\ tick' = r.tick
                  /\ budget' = [budget EXCEPT !.ticks = @ + 1]
       ELSE /\ cameraParams' = LerpYaw(cameraParams)
            /\ tick' = NoTick
            /\ UNCHANGED <<smoothedValues, organicModel, forceParams, budget>>
    /\ UNCHANGED <<variant, surface, faderMappings, simulationState, faderValues>>

\* p.draw: one frame.  frames bounds the frames explored, inputs the effects
\* of the tick's random forces.
Draw(frames, inputs) ==
    /\ frameCount < frames
    /\ frameCount' = frameCount + 1
    /\ IF simulationState = "running"
       THEN \E inp \in inputs :
              \E r \in {updateOrganicModel(variant, faderValues, smoothedValues,
                                           organicModel, LerpYaw(cameraParams),
                                           frameCount + 1, budget.ticks + 1, inp)} :
                  /\ smoothedValues' = r.smoothedValues
                  /\ organicModel' = r.organicModel
                  /\ cameraParams' = r.cameraParams
                  /\ forceParams' = r.forceParams
                  /\ tick' = r.tick
                  /\ budget' = [budget EXCEPT !.ticks = @ + 1]
       ELSE /\ cameraParams' = LerpYaw(cameraParams)
            /\ tick' = NoTick
            /\ UNCHANGED <<smoothedValues, organicModel, forceParams, budget>>
    /\ UNCHANGED <<variant, surface, faderMappings, simulationState, faderValues>>

\* an event of the control surface; limit bounds the events explored
Event(limit) ==
    /\ budget.events < limit
    /\ budget' = [budget EXCEPT !.events = @ + 1]

\* key 'r': reset
KeyReset(limit, layouts) ==
    /\ Event(limit)
    /\ simulationState' = "running"
    /\ \E layout \in layouts :
          organicModel' = initOrganicModel(variant, organicModel, layout)
    /\ tick' = Handled([type |-> "keydown", key |-> "r",
                        state |-> simulationState], <<>>)
    /\ UNCHANGED <<variant, surface, faderMappings, frameCount, faderValues, smoothedValues,
                   cameraParams, forceParams>>

\* key 'p': pause or resume
KeyPause(limit) ==
    /\ Event(limit)
    /\ simulationState' = IF simulationState = "running" THEN "paused" ELSE "running"
    /\ tick' = Handled([type |-> "keydown", key |-> "p",
                        state |-> simulationState], <<>>)
    /\ UNCHANGED <<variant, surface, faderMappings, frameCount, faderValues, smoothedValues,
                   organicModel, cameraParams, forceParams>>

\* indexOf with its -1 taken for the first channel
IndexOfOrFirst(mappings, ccNumber) ==
    IF \E i \in Channels : mappings[i] = ccNumber
    THEN CHOOSE i \in Channels :
            mappings[i] = ccNumber /\ \A j \in Channels : mappings[j] = ccNumber => i <= j
    ELSE 1

\* the index of the first channel mapped to ccNumber, 0 when there is none
IndexOf(mappings, ccNumber) ==
    IF \E i \in Channels : mappings[i] = ccNumber
    THEN CHOOSE i \in Channels :
            mappings[i] = ccNumber /\ \A j \in Channels : mappings[j] = ccNumber => i <= j
    ELSE 0

\* a MIDI controlchange message <<ccNumber, ccValue>>
ControlChange(limit, messages) ==
    /\ Event(limit)
    /\ surface.midi = "inputs"
    /\ \E message \in messages :
          \E paramIndex \in {IndexOf(faderMappings, message[1])} :
              /\ faderValues' = IF paramIndex # 0
                                THEN [faderValues EXCEPT ![paramIndex] = message[2]]
                                ELSE faderValues
              /\ tick' = Handled([type |-> "controlchange", number |-> message[1],
                                  value |-> message[2]],
                                 IF paramIndex # 0
                                 THEN <<(<<paramIndex, message[2]>>)>> ELSE <<>>)
    /\ UNCHANGED <<variant, surface, faderMappings, simulationState, frameCount, smoothedValues,
                   organicModel, cameraParams, forceParams>>

\* the input event of slider i of the settings panel (bounce revision)
SliderInput(limit, inputs) ==
    /\ Event(limit)
    /\ surface.sliderPanels > 0
    /\ \E input \in inputs :
          /\ faderValues' = [faderValues EXCEPT ![input[1]] = input[2]]
          /\ tick' = Handled([type |-> "input", index |-> input[1],
                              value |-> input[2]], <<input>>)
    /\ UNCHANGED <<variant, surface, faderMappings, simulationState, frameCount, smoothedValues,
                   organicModel, cameraParams, forceParams>>

\* the adjusted value without Math.max and Math.min
newValueUnclamped(value, shiftKey) ==
    IF shiftKey THEN value - Unit \div 10 ELSE value + Unit \div 10

\* Math.max(0, value - 0.1) with Shift, Math.min(1, value + 0.1) without
newValue(value, shiftKey) ==
    IF shiftKey THEN Max(0, value - Unit \div 10) ELSE Min(Unit, value + Unit \div 10)

\* number keys 1-9, with or without Shift
NumberKey(limit, keys) ==
    /\ Event(limit)
    /\ \E numKey \in keys, shiftKey \in BOOLEAN :
          /\ faderValues' = [faderValues EXCEPT
                               ![numKey] = newValue(faderValues[numKey], shiftKey)]
          /\ tick' = Handled([type |-> "keyPressed", key |-> numKey,
                              shiftKey |-> shiftKey],
                             <<(<<numKey, newValue(faderValues[numKey], shiftKey)>>)>>)
    /\ UNCHANGED <<variant, surface, faderMappings, simulationState, frameCount, smoothedValues,
                   organicModel, cameraParams, forceParams>>

\* key 's' and the close button: toggleSettings
KeySettings(limit) ==
    /\ Event(limit)
    /\ surface' = [surface EXCEPT !.showSettings = ~@]
    /\ cameraParams' = [cameraParams EXCEPT !.mouseControl = surface.showSettings]
    /\ tick' = Handled([type |-> "keydown", key |-> "s",
                        state |-> simulationState,
                        mouseControl |-> cameraParams.mouseControl], <<>>)
    /\ UNCHANGED <<variant, faderMappings, simulationState, frameCount, faderValues,
                   smoothedValues, organicModel, forceParams>>

\* key 'm': mouse control on or off
KeyMouse(limit) ==
    /\ Event(limit)
    /\ cameraParams' = [cameraParams EXCEPT !.mouseControl = ~@]
    /\ tick' = Handled([type |-> "keydown", key |-> "m",
                        state |-> simulationState], <<>>)
    /\ UNCHANGED <<variant, surface, faderMappings, simulationState, frameCount,
                   faderValues, smoothedValues, organicModel, forceParams>>

\* p.mouseWheel: event.delta is added to the radius, which is then clamped
MouseWheel(limit, deltas) ==
    /\ Event(limit)
    /\ \E delta \in deltas :
          /\ cameraParams' =
                IF cameraParams.mouseControl /\ ~surface.showSettings
                THEN [cameraParams EXCEPT !.radius = constrain(@ + delta, 3000, 20000)]
                ELSE cameraParams
          /\ tick' = Handled([type |-> "wheel", delta |-> delta], <<>>)
    /\ UNCHANGED <<variant, surface, faderMappings, simulationState, frameCount,
                   faderValues, smoothedValues, organicModel, forceParams>>

\* p.mouseDragged by dx pixels: targetYRotation += dx * 0.01 (radians)
MouseDragged(limit, moves) ==
    /\ Event(limit)
    /\ \E dx \in moves :
          /\ cameraParams' =
                IF cameraParams.mouseControl /\ ~surface.showSettings
                THEN [cameraParams EXCEPT !.targetYRotation = @ + dx * 573]
                ELSE cameraParams
          /\ tick' = Handled([type |-> "drag", dx |-> dx], <<>>)
    /\ UNCHANGED <<variant, surface, faderMappings, simulationState, frameCount,
                   faderValues, smoothedValues, organicModel, forceParams>>

\* the decimal digits
DigitValue ==
    ("0" :> 0) @@ ("1" :> 1) @@ ("2" :> 2) @@ ("3" :> 3) @@ ("4" :> 4) @@
    ("5" :> 5) @@ ("6" :> 6) @@ ("7" :> 7) @@ ("8" :> 8) @@ ("9" :> 9)

\* the result of parseInt on a string without a leading number; it equals no
\* controller number, itself included in JavaScript (indexOf never finds it)
NaN == 0 - 1000000

RECURSIVE TrimStart(_)
TrimStart(str) ==
    IF str # <<>> /\ Head(str) = " " THEN TrimStart(Tail(str)) ELSE str

RECURSIVE LeadingDigits(_)
LeadingDigits(str) ==
    IF str = <<>> \/ Head(str) \notin DOMAIN DigitValue
    THEN <<>>
    ELSE <<Head(str)>> \o LeadingDigits(Tail(str))

RECURSIVE Decimal(_)
Decimal(digits) ==
    IF digits = <<>>
    THEN 0
    ELSE 10 * Decimal(SubSeq(digits, 1, Len(digits) - 1))
         + DigitValue[digits[Len(digits)]]

\* parseInt(value, 10) of a string given as its characters: leading blanks
\* are skipped, then an optional sign, then the longest run of digits
parseInt(value) ==
    LET str == TrimStart(value)
        signed == str # <<>> /\ Head(str) \in {"-", "+"}
        digits == LeadingDigits(IF signed THEN Tail(str) ELSE str)
    IN  IF digits = <<>> THEN NaN
        ELSE IF signed /\ Head(str) = "-" THEN 0 - Decimal(digits)
        ELSE Decimal(digits)

\* window.updateMidiMapping(index, value), the onchange handler of the
\* settings panel's mapping fields; a request is <<index + 1, value>>
UpdateMidiMapping(limit, requests) ==
    /\ Event(limit)
    /\ \E request \in requests :
          /\ faderMappings' = [faderMappings EXCEPT
                                 ![request[1]] = parseInt(request[2])]
          /\ tick' = Handled([type |-> "change", index |-> request[1],
                              value |-> request[2],
                              mapping |-> faderMappings[request[1]]], <<>>)
    /\ UNCHANGED <<variant, surface, simulationState, frameCount, faderValues,
                   smoothedValues, organicModel, cameraParams, forceParams>>

-----------------------------------------------------------------------------
(* The sketch under its control surface *)

Rest == [who |-> "none", dx |-> 0, dy |-> 0, dz |-> 0, layout |-> "spread"]

\* every particle is pushed towards the +x and -z walls and down
Gust == [who |-> "all", dx |-> Shove, dy |-> -Drop, dz |-> -Shove, layout |-> "spread"]

\* controller values: 1%, and full
Levels == {Unit \div 100, Unit}

\* controlchange messages: every mapped controller and one that is not
\* mapped; the particle-density fader (CC 39) is moved a little only, which
\* keeps the population small
Messages ==
    {<<ccNumber, ccValue>> : ccNumber \in 33..47, ccValue \in Levels} \ {<<39, Unit>>}

\* slider inputs: every slider but the particle density's, to the middle
SliderInputs == {<<i, Unit \div 2>> : i \in Channels \ {6}}

\* the keys parseInt reads as a channel number
NumberKeys == 1..9

Init == SetupState(Layouts)

Next ==
    \/ Draw(MaxFrames, {Rest, Gust})
    \/ KeyReset(MaxEvents, {"spread"})
    \/ KeyPause(MaxEvents)
    \/ ControlChange(MaxEvents, Messages)
    \/ SliderInput(MaxEvents, SliderInputs)
    \/ NumberKey(MaxEvents, NumberKeys)

Spec == Init /\ [][Next]_vars

-----------------------------------------------------------------------------
(* Properties of the tick *)

\* the particle count floor(numParticles * particleDensity)
densityScaledMax(particleDensity) == (numParticles * particleDensity) \div 1000

\* C1: after every running tick the particle array holds at least
\* minParticles particles, and exactly minParticles when the removal pass
\* left fewer than that.
C1_MinimumPopulation ==
    tick.ran =>
        /\ Len(organicModel.particles) >= minParticles
        /\ (tick.left >= 0 /\ tick.left < minParticles)
              => Len(organicModel.particles) = minParticles

\* C2: at the end of every tick and after every reset, the from and the to
\* of every connection are indices of the particle array.
C2_ValidIndices ==
    \A c \in 1..Len(organicModel.connections) :
        /\ organicModel.connections[c].from \in 1..Len(organicModel.particles)
        /\ organicModel.connections[c].to \in 1..Len(organicModel.particles)

\* C3: no particle position is NaN or infinite, and the terrain step never
\* writes a y that is not finite.
C3_FinitePositions ==
    /\ \A i \in 1..Len(organicModel.particles) : organicModel.particles[i].yk = "fin"
    /\ tick.ran => \A landing \in tick.landings : landing.yk = "fin"

\* C5: a particle inside the grid and below the surface is put at
\* surface + 0.8 * size by the terrain step, and leaves it with a velocity
\* whose component along the upward normal is not negative.
C5_BounceUp ==
    tick.ran =>
        \A landing \in tick.landings :
            landing.collision =>
                /\ landing.yk = "fin"
                /\ landing.y = landing.surface + (8 * landing.size) \div 10
                /\ landing.vnOut >= 0

-----------------------------------------------------------------------------
(* The density faders, followed over DensityEvents controlchange messages  *)
(* on the particle-density and connection-density controllers.             *)

DensityMessages ==
    {<<ccNumber, ccValue>> : ccNumber \in {39, 40}, ccValue \in {0, Unit \div 2, Unit}}

InitDensity == SetupState({"spread"})

NextDensity ==
    \/ Draw(DensityFrames, {Rest})
    \/ ControlChange(DensityEvents, DensityMessages)

SpecDensity == InitDensity /\ [][NextDensity]_vars

\* the tick found the mapped particle density more than 0.1 away from the
\* baked one
DensityMoved ==
    tick.ran /\ Abs(tick.particleDensity - tick.mp.particleDensity) > 100

\* C7: in the bounce revision, a running tick that finds the mapped particle
\* density more than 0.1 away from the baked one re-initialises the model
\* once and ends with floor(numParticles * mapped density) particles.
C7_DensityReinit ==
    (variant = "bounce" /\ DensityMoved) =>
        /\ tick.initCalls = 1
        /\ Len(organicModel.particles) = densityScaledMax(tick.mp.particleDensity)
        /\ organicModel.particleDensity = tick.mp.particleDensity

\* a bounce tick re-initialised and the population grew
C7_Witness ==
    /\ variant = "bounce" /\ DensityMoved
    /\ tick.before < Len(organicModel.particles)

-----------------------------------------------------------------------------
(* The debounce of the terrain hits, followed over Horizon frames: the     *)
(* first particle is pressed into the terrain on every tick, and the       *)
(* simulation may be paused and resumed.                                   *)

Press == [who |-> "first", dx |-> 0, dy |-> -Drop, dz |-> 0, layout |-> "spread"]

InitDebounce == SetupState({"spread"})

NextDebounce ==
    \/ Draw(Horizon, {Press})
    \/ KeyPause(MaxPauses)

SpecDebounce == InitDebounce /\ [][NextDebounce]_vars

\* C4: no particle's terrainHits is incremented twice within 10 consecutive
\* ticks, whatever pause and resume commands come between the ticks.
C4_OneHitPerWindow ==
    \A i \in 1..Len(organicModel.particles) : ~organicModel.particles[i].closeHits

\* C6: the population stays within minParticles and
\* floor(numParticles * particleDensity) for the baked particleDensity.
C6_PopulationBounds ==
    /\ Len(organicModel.particles) >= minParticles
    /\ Len(organicModel.particles) <= densityScaledMax(organicModel.particleDensity)

-----------------------------------------------------------------------------
(* The gesture smoother alone: raw values held constant, smoothGestureValues *)
(* applied again and again, as the draw loop does while the sketch runs.   *)

GestureChannels == FirstGesture..NumChannels

SmoothLevels == {0, Unit \div 100, Unit \div 4, Unit \div 2, Unit}

InitSmooth ==
    /\ Declared
    /\ \E r \in SmoothLevels, s \in SmoothLevels :
          /\ faderValues = [i \in Channels |-> r]
          /\ smoothedValues = [i \in Channels |-> IF i \in GestureChannels THEN s ELSE r]

Smooth ==
    /\ smoothedValues' = smoothGestureValues(smoothedValues, faderValues)
    /\ tick' = [ran |-> FALSE, threw |-> FALSE, smoothedFrom |-> smoothedValues]
    /\ UNCHANGED <<variant, surface, faderMappings, simulationState, frameCount, faderValues,
                   organicModel, cameraParams, forceParams, budget>>

NextSmooth == Smooth

\* the draw loop calls updateOrganicModel on every frame
SpecSmooth == InitSmooth /\ [][NextSmooth]_vars /\ WF_vars(NextSmooth)

\* C8: with the raw value of a gesture channel held constant, every
\* application of smoothGestureValues leaves the smoothed value no farther
\* from the raw value and on the same side of it, and the distance ends up
\* within the resolution of the arithmetic for good.
C8_MonotoneConvergence ==
    /\ [][\A i \in GestureChannels :
            /\ Abs(faderValues[i] - smoothedValues'[i])
                  <= Abs(faderValues[i] - smoothedValues[i])
            /\ (faderValues[i] - smoothedValues[i])
                  * (faderValues[i] - smoothedValues'[i]) >= 0]_vars
    /\ <>[](\A i \in GestureChannels :
               Abs(faderValues[i] - smoothedValues[i]) <= SmoothEps)

\* a gesture channel that started at 0 under a raw value of 1 has been
\* smoothed to within the resolution
C8_Witness ==
    /\ "smoothedFrom" \in DOMAIN tick
    /\ \A i \in GestureChannels :
          /\ faderValues[i] = Unit
          /\ tick.smoothedFrom[i] < smoothedValues[i]
          /\ Unit - smoothedValues[i] <= SmoothEps

-----------------------------------------------------------------------------
(* The parameter mapper alone, applied to smoothed values drawn from       *)
(* MapperLevels: one level for the faders, one for the first and one for   *)
(* the second gesture of each pair.                                        *)

MapperLevels == {0, Unit \div 100, Unit \div 4, Unit \div 2, Unit}

InitMapper ==
    /\ Declared
    /\ \E a \in MapperLevels, b \in MapperLevels, c \in MapperLevels :
          /\ smoothedValues = [i \in Channels |->
                                 IF i < FirstGesture THEN a
                                 ELSE IF i % 2 = 1 THEN b ELSE c]
          /\ faderValues = smoothedValues

\* the locals and the camera and force assignments at the head of the tick
ApplyMapper ==
    /\ ~tick.ran
    /\ \E mp \in {MapParams(variant, smoothedValues)} :
          /\ tick' = [ran |-> TRUE, threw |-> FALSE, mp |-> mp]
          /\ cameraParams' = [cameraParams EXCEPT
                                !.zRotation = mp.zRotation,
                                !.xRotation = mp.xRotation,
                                !.yRotation = StepYaw(@, mp.rotationInput)]
          /\ forceParams' = [vortexStrength |-> mp.vortexStrength,
                             gravityStrength |-> mp.gravityStrength]
    /\ UNCHANGED <<variant, surface, faderMappings, simulationState, frameCount, faderValues,
                   smoothedValues, organicModel, budget>>

NextMapper == ApplyMapper

SpecMapper == InitMapper /\ [][NextMapper]_vars

Within(x, low, high) == low <= x /\ x <= high

\* C10: the mapped parameters stay inside their documented ranges.
C10_MappedRanges ==
    tick.ran =>
        /\ Within(tick.mp.size, 500, 2000)
        /\ Within(tick.mp.speed, 100, 2000)
        /\ variant = "bounce" => /\ Within(tick.mp.gravity, 10, 200)
                                 /\ Within(tick.mp.turbulence, 10, 300)
        /\ Within(tick.mp.randomness, 10, 200)
        /\ Within(tick.mp.particleDensity, 200, 1000)
        /\ Within(tick.mp.connectionDensity, 0, 1000)
        /\ Within(tick.mp.terrainHeight, 200, 2000)
        /\ Within(cameraParams.zRotation, -45000, 45000)
        /\ Within(cameraParams.xRotation, -45000, 45000)
        /\ Within(forceParams.vortexStrength, 0, 50)
        /\ Within(forceParams.gravityStrength, 0, 100)

\* the mapper has run on the largest tilt, lift and fader values
C10_Witness ==
    /\ tick.ran /\ variant = "bounce"
    /\ tick.mp.size = 2000 /\ tick.mp.gravity = 200
    /\ cameraParams.zRotation = 45000
    /\ forceParams.gravityStrength = 50

-----------------------------------------------------------------------------
(* The control surface, followed over ControlEvents events on one fader    *)
(* and one gesture channel.                                                *)

ControlChannels == {1, FirstGesture}

ControlMessages == {<<33 + i, value>> : i \in ControlChannels, value \in {0, Unit}}

ControlSliders == {<<i, Unit \div 2>> : i \in ControlChannels}

InitControls == SetupState({"spread"})

NextControls ==
    \/ Draw(ControlFrames, {Rest})
    \/ ControlChange(ControlEvents, ControlMessages)
    \/ SliderInput(ControlEvents, ControlSliders)
    \/ NumberKey(ControlEvents, ControlChannels)

SpecControls == InitControls /\ [][NextControls]_vars

\* C9: every raw value and every smoothed value lies in [0, 1].
C9_UnitInterval ==
    \A i \in Channels :
        /\ Within(faderValues[i], 0, Unit)
        /\ Within(smoothedValues[i], 0, Unit)

\* a key press was clamped at 1 and the smoother has started towards it
C9_Witness ==
    /\ budget.events >= 2
    /\ faderValues[FirstGesture] = Unit
    /\ Within(smoothedValues[FirstGesture], 1, Unit - 1)

-----------------------------------------------------------------------------
(* Terrain regeneration *)

\* C11: a running tick executes generateTerrain only if the mapped terrain
\* height is more than 5 away from the baked one.
C11_TerrainHysteresis ==
    tick.ran =>
        (tick.terrainCalls > 0
            => Abs(tick.terrainHeight - tick.mp.terrainHeight) > 50)

-----------------------------------------------------------------------------
(* Rebinding the controllers *)

\* mapping requests explored
BindingEvents == 2

\* the values typed into a mapping field, as their characters: ids in range
\* (35 and 36 are bound to channels 2 and 3 at startup), ids out of range,
\* and strings without a leading number
BindingValues ==
    { <<"3", "5">>, <<"3", "6">>, <<"5", "2">>, <<"0">>, <<"1", "2", "7">>,
      <<"1", "2", "8">>, <<"2", "0", "0">>, <<"-", "3">>, <<" ", "5", "2", "x">>,
      <<"x">>, <<>> }

\* requests for the first two channels
BindingRequests == {<<i, value>> : i \in 1..2, value \in BindingValues}

\* controller events: the first three default ids, one rebound id, one unbound
BindingMessages == {<<ccNumber, Unit>> : ccNumber \in {34, 35, 36, 52, 33}}

InitBinding == SetupState({"spread"})

NextBinding ==
    \/ UpdateMidiMapping(BindingEvents, BindingRequests)
    \/ ControlChange(BindingEvents, BindingMessages)

SpecBinding == InitBinding /\ [][NextBinding]_vars

IsEvent(t, type) == "event" \in DOMAIN t /\ t.event.type = type

\* the request's value reads as an integer in 0..127
WellFormed(value) == parseInt(value) \in 0..127

\* C12: a rebinding request whose value is malformed or outside 0..127
\* leaves faderMappings[index] at its previous value.
C12_RejectsInvalid ==
    IsEvent(tick, "change") /\ ~WellFormed(tick.event.value)
        => faderMappings[tick.event.index] = tick.event.mapping

\* C13: after any sequence of rebinding requests no two channels are bound
\* to the same controller id, so a controller event can reach every channel.
C13_UniqueBindings ==
    \A i, j \in Channels :
        i # j /\ faderMappings[i] # NaN => faderMappings[i] # faderMappings[j]

\* the channels bound to controller number in the table mappings
BoundTo(mappings, number) == {i \in Channels : mappings[i] = number}

\* C14: a controller event whose id is not in the binding table changes no
\* raw value, shows no notification and raises no error; an event whose id
\* is bound sets the raw value of exactly one channel bound to it to the
\* event's value and changes no other raw value.
C14_ControllerEvent ==
    [][IsEvent(tick', "controlchange")
          => IF BoundTo(faderMappings, tick'.event.number) = {}
             THEN /\ faderValues' = faderValues
                  /\ tick'.notified = <<>>
                  /\ ~tick'.threw
             ELSE \E i \in BoundTo(faderMappings, tick'.event.number) :
                     faderValues' = [faderValues EXCEPT ![i] = tick'.event.value]]_vars

\* a controller event for id 34 after channel 1 was bound to another id
C14_Witness ==
    /\ IsEvent(tick, "controlchange")
    /\ tick.event.number = 34
    /\ BoundTo(faderMappings, 34) = {}
    /\ tick.notified = <<>>
    /\ faderValues = [i \in Channels |-> 0]

-----------------------------------------------------------------------------
(* Startup of the control surface *)

\* events explored after startup
StartupEvents == 2

StartupFrames == 1

InitStartup == SetupWith({"spread"}, {Pending})

NextStartup ==
    \/ MidiEnabled(MidiOutcomes)
    \/ Draw(StartupFrames, {Rest})
    \/ ControlChange(StartupEvents, ControlMessages)
    \/ SliderInput(StartupEvents, ControlSliders)

SpecStartup == InitStartup /\ [][NextStartup]_vars

\* C15: once WebMidi.enable() has ended, the page holds one slider panel if
\* no controller is available (no input, or enabling failed) and none
\* otherwise; a slider input on channel i sets the raw value of i and shows
\* the notification of a controller event for i.
C15_SliderFallback ==
    /\ surface.midi # "pending"
          => surface.sliderPanels = (IF surface.midi \in {"none", "failed"} THEN 1 ELSE 0)
    /\ IsEvent(tick, "input")
          => /\ faderValues[tick.event.index] = tick.event.value
             /\ tick.notified = <<(<<tick.event.index, tick.event.value>>)>>

-----------------------------------------------------------------------------
(* Reset *)

\* events and frames explored around a reset
ResetEvents == 3

ResetFrames == 2

\* the particle-density fader (CC 39), to both ends
ResetMessages == {<<39, 0>>, <<39, Unit>>}

InitReset == SetupState({"spread"})

NextReset ==
    \/ Draw(ResetFrames, {Gust})
    \/ KeyReset(ResetEvents, {"spread"})
    \/ KeyPause(ResetEvents)
    \/ ControlChange(ResetEvents, ResetMessages)

SpecReset == InitReset /\ [][NextReset]_vars

IsKey(t, key) == IsEvent(t, "keydown") /\ t.event.key = key

\* C16: no tick and no handler finds simulationState at 'reset'; after the
\* reset key, pressed while running or paused, simulationState is 'running',
\* the terrain, the particles and the connections are those of
\* initOrganicModel, and there are floor(numParticles * particleDensity)
\* particles for the baked particleDensity.
C16_Reset ==
    /\ simulationState \in {"running", "paused"}
    /\ IsKey(tick, "r")
          => /\ simulationState = "running"
             /\ Len(organicModel.particles)
                   = densityScaledMax(organicModel.particleDensity)
             /\ organicModel = initOrganicModel(variant, organicModel, "spread")

\* a reset pressed while paused, after a tick has baked another density
C16_Witness ==
    /\ IsKey(tick, "r")
    /\ tick.event.state = "paused"
    /\ simulationState = "running"
    /\ organicModel.particleDensity # DeclaredModel.particleDensity
    /\ budget.ticks > 0

-----------------------------------------------------------------------------
(* The camera *)

\* events and frames explored
CameraEvents == 3

CameraFrames == 1

\* wheel deltas in tenths of a unit: one notch either way, and a long scroll
WheelDeltas == {0 - 25000, 0 - 1000, 1000, 25000}

\* drags of 100 pixels either way
DragMoves == {0 - 100, 100}

InitCamera == SetupState({"spread"})

NextCamera ==
    \/ Draw(CameraFrames, {Rest})
    \/ MouseWheel(CameraEvents, WheelDeltas)
    \/ MouseDragged(CameraEvents, DragMoves)
    \/ KeySettings(CameraEvents)
    \/ KeyMouse(CameraEvents)
    \/ KeyPause(CameraEvents)

SpecCamera == InitCamera /\ [][NextCamera]_vars

\* C17: in every reachable state cameraParams.radius lies in [300, 2000].
C17_RadiusRange == Within(cameraParams.radius, 3000, 20000)

-----------------------------------------------------------------------------
(* The batch that ends the tick, applied to small populations *)

\* particles before the batch
BatchParticles == 4

\* particles queued for addition
BatchAdds == 1

\* indices the terrain step queues
BatchHits == 2

\* the members of a set of numbers, ascending
Ascending(S) ==
    Tuple([m \in 1..Cardinality(S) |->
              CHOOSE v \in S : Cardinality({w \in S : w < v}) = m - 1])

\* what the pair scan pushes for n particles: nothing, one pair, or the
\* pairs (1, 2) and (3, 4)
PairQueues(n) ==
    {<<>>} \cup {q \in {<<i, j>> : i \in 1..n, j \in 1..n} : q[1] < q[2]}
           \cup (IF n >= 4 THEN {<<1, 2, 3, 4>>} ELSE {})

\* what the particle loop pushes: up to BatchHits indices, ascending
HitQueues(n) ==
    {Ascending(S) : S \in {T \in SUBSET (1..n) : Cardinality(T) <= BatchHits}}

\* particlesToRemove when the batch begins; the bounce revision never pushes
BatchQueues(v, n) ==
    IF v = "bounce" THEN {<<>>}
    ELSE {pairs \o hits : pairs \in PairQueues(n), hits \in HitQueues(n)}

BatchModel(v, n, adds, queue) ==
    With(Tuple([k \in 1..n |-> createParticle(DeclaredModel.terrainHeight,
                                              "spread", k - 1)]), LAMBDA ps :
         [DeclaredModel EXCEPT
            !.terrain = generateTerrain(v, DeclaredModel.terrainHeight),
            !.particles = ps,
            !.connections = createConnections(v, ps, DeclaredModel.connectionDensity).connections,
            !.particlesToAdd =
                Tuple([m \in 1..adds |-> createParticle(DeclaredModel.terrainHeight,
                                                        "spread", n + m - 1)]),
            !.particlesToRemove = queue])

InitBatch ==
    /\ variant \in Variants
    /\ simulationState = "running"
    /\ frameCount = 0
    /\ faderValues = [i \in Channels |-> 0]
    /\ smoothedValues = [i \in Channels |-> 0]
    /\ faderMappings = DefaultMappings
    /\ surface = initMidi(variant, Pending, "inputs")
    /\ \E n \in 2..BatchParticles, adds \in 0..BatchAdds :
          \E queue \in BatchQueues(variant, n) :
              organicModel = BatchModel(variant, n, adds, queue)
    /\ cameraParams = [DeclaredCamera(variant) EXCEPT !.mouseControl = TRUE]
    /\ forceParams = [vortexStrength |-> 0, gravityStrength |-> 10000]
    /\ tick = NoTick
    /\ budget = [events |-> 0, ticks |-> 0]

\* the end of a tick: the add pass, the removal pass and the top-up
ApplyBatch ==
    /\ budget.ticks = 0
    /\ \E r \in {BatchPasses(variant, organicModel)} :
          /\ organicModel' = r.om
          /\ tick' = [ran |-> FALSE, threw |-> r.threw, left |-> r.left,
                      batch |-> [particles |-> organicModel.particles,
                                 particlesToAdd |-> organicModel.particlesToAdd,
                                 particlesToRemove |-> organicModel.particlesToRemove]]
    /\ budget' = [budget EXCEPT !.ticks = @ + 1]
    /\ UNCHANGED <<variant, surface, faderMappings, simulationState, frameCount,
                   faderValues, smoothedValues, cameraParams, forceParams>>

NextBatch == ApplyBatch

SpecBatch == InitBatch /\ [][NextBatch]_vars

\* the entries of ps whose index is not in gone, in order
Surviving(ps, gone) ==
    With(SelectSeq(Tuple([i \in 1..Len(ps) |-> [at |-> i, p |-> ps[i]]]),
                   LAMBDA e : e.at \notin gone), LAMBDA kept :
         Tuple([m \in 1..Len(kept) |-> kept[m].p]))

\* C18: the batch appends the queued adds, then removes exactly the
\* particles whose index was queued (each once, whatever the number of times
\* it was queued, and no other), the survivors keep their order, and both
\* queues are empty afterwards.
C18_ExactBatch ==
    "batch" \in DOMAIN tick
        => /\ SubSeq(organicModel.particles, 1, tick.left)
                 = Surviving(tick.batch.particles \o tick.batch.particlesToAdd,
                             {tick.batch.particlesToRemove[m] :
                                 m \in DOMAIN tick.batch.particlesToRemove})
           /\ tick.left <= Len(organicModel.particles)
           /\ organicModel.particlesToAdd = <<>>
           /\ organicModel.particlesToRemove = <<>>

\* a batch with an add and an index queued twice, out of order
C18_Witness ==
    /\ "batch" \in DOMAIN tick
    /\ tick.batch.particlesToAdd # <<>>
    /\ tick.batch.particlesToRemove = <<1, 2, 1, 2>>
    /\ Len(organicModel.particles) >= minParticles

-----------------------------------------------------------------------------
(* The terrain query outside the sampled grid *)

\* C19: the terrain step does not act on a particle whose (x, z) is outside
\* the sampled grid cells, whatever its y: position, velocity, terrainHits
\* and lastCollisionTime are left as they were.
C19_OutOfGridUntouched ==
    tick.ran => \A landing \in tick.landings : landing.inGrid

-----------------------------------------------------------------------------
(* createConnections on small populations *)

\* the largest population
ConnectionParticles == 6

ConnectionDensities == {0, Unit \div 5, Unit \div 2, (4 * Unit) \div 5, Unit}

InitConnections ==
    /\ variant \in Variants
    /\ simulationState = "running"
    /\ frameCount = 0
    /\ faderValues = [i \in Channels |-> 0]
    /\ smoothedValues = [i \in Channels |-> 0]
    /\ faderMappings = DefaultMappings
    /\ surface = initMidi(variant, Pending, "inputs")
    /\ \E n \in 0..ConnectionParticles, cd \in ConnectionDensities :
          organicModel = [BatchModel(variant, n, 0, <<>>) EXCEPT
                             !.connections = <<>>, !.connectionDensity = cd]
    /\ cameraParams = [DeclaredCamera(variant) EXCEPT !.mouseControl = TRUE]
    /\ forceParams = [vortexStrength |-> 0, gravityStrength |-> 10000]
    /\ tick = NoTick
    /\ budget = [events |-> 0, ticks |-> 0]

\* organicModel.connections = createConnections()
ApplyConnections ==
    /\ budget.ticks = 0
    /\ \E r \in {Recreate(variant, [om |-> organicModel, threw |-> FALSE])} :
          /\ organicModel' = r.om
          /\ tick' = [ran |-> FALSE, threw |-> r.threw, created |-> TRUE]
    /\ budget' = [budget EXCEPT !.ticks = @ + 1]
    /\ UNCHANGED <<variant, surface, faderMappings, simulationState, frameCount,
                   faderValues, smoothedValues, cameraParams, forceParams>>

NextConnections == ApplyConnections

SpecConnections == InitConnections /\ [][NextConnections]_vars

\* C20: createConnections returns without error for every particle count
\* and every connection density, and creates at most N-1 connections per
\* particle.
C20_Total ==
    "created" \in DOMAIN tick
        => /\ ~tick.threw
           /\ \A i \in 1..Len(organicModel.particles) :
                 Cardinality({c \in DOMAIN organicModel.connections :
                                 organicModel.connections[c].from = i})
                     <= Len(organicModel.particles) - 1

-----------------------------------------------------------------------------
(* The connection-density fader alone *)

\* the tick found only the mapped connection density more than 0.1 away
\* from the baked one
OnlyConnectionsMoved ==
    /\ tick.ran
    /\ Abs(tick.connectionDensity - tick.mp.connectionDensity) > 100
    /\ Abs(tick.particleDensity - tick.mp.particleDensity) <= 100

\* C21: a running tick in which only the connection density moved by more
\* than 0.1 does not re-initialise the particles; only the connections are
\* rebuilt.
C21_ConnectionsOnly == OnlyConnectionsMoved => tick.initCalls = 0

-----------------------------------------------------------------------------
(* Events between frames *)

\* the event of the control surface a handler has just served
IsControlEvent(t) ==
    IsEvent(t, "controlchange") \/ IsEvent(t, "input") \/ IsEvent(t, "keyPressed")

\* C22: a handler of the control surface writes at most the raw value of
\* its channel, the one it notifies; the model, the smoothed values, the
\* camera, the forces, the bindings and simulationState are as before.  A
\* tick leaves the raw values alone and smooths and maps the raw values it
\* finds when it starts.
C22_EventsWriteRawValues ==
    [][/\ IsControlEvent(tick')
            => /\ UNCHANGED <<organicModel, smoothedValues, cameraParams, forceParams,
                             simulationState, faderMappings, frameCount>>
               /\ \A i \in Channels :
                     faderValues'[i] # faderValues[i]
                         => tick'.notified = <<(<<i, faderValues'[i]>>)>>
       /\ tick'.ran
            => /\ faderValues' = faderValues
               /\ smoothedValues' = smoothGestureValues(smoothedValues, faderValues)
               /\ tick'.mp = MapParams(variant, smoothedValues')]_vars

\* a tick has taken up the raw value an event wrote after an earlier tick
C22_Witness ==
    /\ tick.ran
    /\ budget.ticks >= 2
    /\ budget.events >= 1
    /\ smoothedValues[1] = faderValues[1]
    /\ faderValues[1] > 0
    /\ tick.mp.size > 500

-----------------------------------------------------------------------------
(* Pause *)

\* C23: the pause key only flips simulationState between 'running' and
\* 'paused'; a frame drawn while paused leaves the model with its queues,
\* the smoothed values, the tilt and lift rotations and the forces as they
\* were, whatever the raw values.
C23_PausedFrames ==
    [][/\ IsKey(tick', "p")
            => /\ {simulationState, simulationState'} = {"running", "paused"}
               /\ UNCHANGED <<organicModel, smoothedValues, faderValues, cameraParams,
                             forceParams, faderMappings, frameCount>>
       /\ (frameCount' # frameCount /\ simulationState = "paused")
            => /\ UNCHANGED <<organicModel, smoothedValues, faderValues, forceParams,
                             simulationState>>
               /\ cameraParams'.zRotation = cameraParams.zRotation
               /\ cameraParams'.xRotation = cameraParams.xRotation]_vars

\* a frame was drawn while paused with a raw value the smoother has not seen
C23_Witness ==
    /\ simulationState = "paused"
    /\ tick = NoTick
    /\ frameCount >= 1
    /\ faderValues[6] # smoothedValues[6]

-----------------------------------------------------------------------------
(* Pointer control *)

\* C24: the settings key changes the visibility of the settings panel only:
\* cameraParams.mouseControl is what it was before the key, so opening and
\* closing the panel leaves it as it was.
C24_SettingsKeepPointer ==
    IsKey(tick, "s") => cameraParams.mouseControl = tick.event.mouseControl

-----------------------------------------------------------------------------
(* Yaw: the rotate gestures, the drags and the per-frame lerp *)

\* events and frames explored
YawEvents == 4

YawFrames == 2

\* the rotate-right (CC 46) and rotate-left (CC 47) gestures, fully on
YawMessages == {<<46, Unit>>, <<47, Unit>>}

\* a drag across a window 3840 pixels wide, either way
YawDrags == {0 - 3840, 3840}

InitYaw == SetupState({"spread"})

NextYaw ==
    \/ Draw(YawFrames, {Rest})
    \/ ControlChange(YawEvents, YawMessages)
    \/ MouseDragged(YawEvents, YawDrags)

SpecYaw == InitYaw /\ [][NextYaw]_vars

\* the tick found |rotateRight - rotateLeft| > 0.5
Stepped(t) == t.ran /\ 2 * Abs(t.mp.rotationInput) > Unit

\* C25: a running tick changes yaw exactly when the smoothed rotate gestures
\* differ by more than 0.5, and then by one step of 15 degrees modulo a full
\* turn, up when rotateRight is the larger and down otherwise; otherwise yaw
\* is as p.draw left it.
C25_YawDetent ==
    [][tick'.ran =>
          IF Stepped(tick')
          THEN /\ cameraParams'.yRotation # LerpYaw(cameraParams).yRotation
               /\ (cameraParams'.yRotation
                      - (LerpYaw(cameraParams).yRotation
                           + (IF tick'.mp.rotationInput > 0 THEN 15000 ELSE 0 - 15000)))
                     % 360000 = 0
          ELSE cameraParams'.yRotation = LerpYaw(cameraParams).yRotation]_vars

\* a tick stepped yaw down
C25_Witness ==
    /\ Stepped(tick)
    /\ tick.mp.rotationInput < 0
    /\ budget.ticks = 2

\* C26: after a running tick that applied a gesture yaw step, yaw is in
\* [0, 2*pi), whatever the lerp towards targetYRotation had made of it.
C26_YawNormalised ==
    Stepped(tick) => Within(cameraParams.yRotation, 0, 360000 - 1)

-----------------------------------------------------------------------------
(* The neighbours createConnections picks *)

\* the targets of the connections that leave particle i
Targets(cs, i) == {cs[c].to : c \in {d \in DOMAIN cs : cs[d].from = i}}

\* C27: after createConnections on N particles with connection density d,
\* every particle has exactly floor(min(5, N-1) * d) outgoing connections,
\* to distinct particles other than itself, none of them farther than a
\* particle it is not connected to; with d = 0 there is no connection.
C27_NearestNeighbours ==
    "created" \in DOMAIN tick
        => /\ ~tick.threw
           /\ organicModel.connectionDensity = 0 => organicModel.connections = <<>>
           /\ \A i \in 1..Len(organicModel.particles) :
                 /\ Cardinality({c \in DOMAIN organicModel.connections :
                                    organicModel.connections[c].from = i})
                      = (Min(5, Len(organicModel.particles) - 1)
                           * organicModel.connectionDensity) \div Unit
                 /\ Cardinality(Targets(organicModel.connections, i))
                      = (Min(5, Len(organicModel.particles) - 1)
                           * organicModel.connectionDensity) \div Unit
                 /\ i \notin Targets(organicModel.connections, i)
                 /\ \A to \in Targets(organicModel.connections, i) :
                       \A j \in (1..Len(organicModel.particles))
                                  \ (Targets(organicModel.connections, i) \cup {i}) :
                           Dist2(organicModel.particles[i], organicModel.particles[j])
                             >= Dist2(organicModel.particles[i], organicModel.particles[to])

-----------------------------------------------------------------------------
(* The life of a particle in the despawn revision: the first particle is   *)
(* pressed into the terrain on every tick until its fifth counted hit.     *)

DespawnFrames == 56
DespawnPauses == 1

\* the despawn sketch after p.setup, the MIDI inputs enabled
InitDespawn ==
    /\ SetupWith({"spread"}, {initMidi("despawn", Pending, "inputs")})
    /\ variant = "despawn"

NextDespawn ==
    \/ Draw(DespawnFrames, {Press})
    \/ KeyPause(DespawnPauses)

SpecDespawn == InitDespawn /\ [][NextDespawn]_vars

\* C28: in the despawn revision a particle is queued for removal in the
\* tick in which its counted terrain hits reach 5 and is gone when that tick
\* ends, so after every tick every particle has terrainHits <= 4; and a
\* particle queues a spawned particle in the tick of its first counted hit
\* and in no other tick.
C28_HitLifecycle ==
    (variant = "despawn" /\ tick.ran)
        => /\ \A i \in 1..Len(organicModel.particles) :
                 organicModel.particles[i].terrainHits <= HitLimit - 1
           /\ \A i \in 1..Len(tick.hits) :
                 /\ tick.hits[i].before <= HitLimit - 1
                 /\ tick.hits[i].after = HitLimit
                      <=> \E m \in 1..Len(tick.queuedToRemove) : tick.queuedToRemove[m] = i
           /\ Len(tick.queuedToRemove)
                = Cardinality({i \in 1..Len(tick.hits) : tick.hits[i].after = HitLimit})
           /\ tick.queuedToAdd
                = Cardinality({i \in 1..Len(tick.hits) :
                                 tick.hits[i].before = 0 /\ tick.hits[i].after = 1})
           /\ tick.left >= 0 =>
                 tick.left <= Len(tick.hits) + tick.queuedToAdd - Len(tick.queuedToRemove)

\* a tick in which a particle that spawned on its first hit took its fifth
C28_Witness ==
    /\ variant = "despawn" /\ tick.ran
    /\ \E i \in 1..Len(tick.hits) : tick.hits[i].before = 4 /\ tick.hits[i].after = 5
    /\ tick.queuedToRemove # <<>>
    /\ tick.left = Len(tick.hits) - 1

-----------------------------------------------------------------------------
(* The Bezier parameter of a particle: bezierT in 1/(Unit * Unit), so that *)
(* 0.002 * speed is 2 * speed for a speed in 1/Unit.                       *)

\* the step with the endpoint itself taken as beyond the endpoint
stepBezierInclusive(particle, speed) ==
    With(particle.bezierT + 2 * speed * particle.bezierDirection, LAMBDA t :
         [particle EXCEPT
            !.bezierDirection = IF t >= Unit * Unit \/ t <= 0 THEN -@ ELSE @,
            !.bezierT = constrain(t, 0, Unit * Unit)])

\* bezierT += 0.002 * speed * bezierDirection; the direction reversed beyond
\* an endpoint; bezierT constrained to [0, 1]
stepBezier(particle, speed) ==
    With(particle.bezierT + 2 * speed * particle.bezierDirection, LAMBDA t :
         [particle EXCEPT
            !.bezierDirection = IF t > Unit * Unit \/ t < 0 THEN -@ ELSE @,
            !.bezierT = constrain(t, 0, Unit * Unit)])

\* the speed fader at rest and fully open
BezierLevels == {0, Unit}

\* the speeds updateOrganicModel maps them to
BezierSpeeds == {pmap(level, 0, Unit, 100, 2000) : level \in BezierLevels}

\* one particle as createParticle makes it: bezierT 0, bezierDirection 1
InitBezier ==
    /\ variant \in Variants
    /\ simulationState = "running"
    /\ frameCount = 0
    /\ faderValues = [i \in Channels |-> 0]
    /\ smoothedValues = [i \in Channels |-> 0]
    /\ faderMappings = DefaultMappings
    /\ surface = initMidi(variant, Pending, "inputs")
    /\ organicModel = [DeclaredModel EXCEPT
                          !.particles = <<[bezierT |-> 0, bezierDirection |-> 1]>>]
    /\ cameraParams = [DeclaredCamera(variant) EXCEPT !.mouseControl = TRUE]
    /\ forceParams = [vortexStrength |-> 0, gravityStrength |-> 10000]
    /\ tick = NoTick
    /\ budget = [events |-> 0, ticks |-> 0]

\* the Bezier step of the particle loop, for the speed of this tick
Bezier ==
    /\ \E speed \in BezierSpeeds :
          /\ organicModel' =
                [organicModel EXCEPT !.particles =
                    Tuple([i \in 1..Len(organicModel.particles) |->
                             stepBezier(organicModel.particles[i], speed)])]
          /\ tick' = [ran |-> FALSE, threw |-> FALSE, speed |-> speed]
    /\ UNCHANGED <<variant, surface, faderMappings, simulationState, frameCount,
                   faderValues, smoothedValues, cameraParams, forceParams, budget>>

NextBezier == Bezier

\* the draw loop calls updateOrganicModel on every frame
SpecBezier == InitBezier /\ [][NextBezier]_vars /\ WF_vars(NextBezier)

\* the unclamped bezierT of the step that leads to tick t
Unclamped(particle, t) == particle.bezierT + 2 * t.speed * particle.bezierDirection

\* C29: after every tick bezierT is in [0, 1] and bezierDirection is +1 or
\* -1; the direction is negated in exactly the ticks whose unclamped step
\* 0.002 * speed * bezierDirection takes bezierT above 1 or below 0; and
\* bezierT comes back to each of the two endpoints again and again.
C29_BezierOscillates ==
    /\ [](/\ Within(organicModel.particles[1].bezierT, 0, Unit * Unit)
          /\ organicModel.particles[1].bezierDirection \in {-1, 1})
    /\ [][organicModel.particles'[1].bezierDirection
             = IF Unclamped(organicModel.particles[1], tick') > Unit * Unit
                  \/ Unclamped(organicModel.particles[1], tick') < 0
               THEN -organicModel.particles[1].bezierDirection
               ELSE organicModel.particles[1].bezierDirection]_vars
    /\ []<>(organicModel.particles[1].bezierT = 0)
    /\ []<>(organicModel.particles[1].bezierT = Unit * Unit)
    /\ []<>(Within(organicModel.particles[1].bezierT, 1, Unit * Unit - 1))

\* the particle at the far endpoint, turned back by a step that went beyond it
C29_Witness ==
    /\ "speed" \in DOMAIN tick
    /\ organicModel.particles[1].bezierT = Unit * Unit
    /\ organicModel.particles[1].bezierDirection = -1

-----------------------------------------------------------------------------
(* The return of yaw to targetYRotation: rotate gestures, drags and the    *)
(* pause key during the first ReturnWindow frames, then frames only, as    *)
(* many as bring yaw from anywhere it can be after the window to the       *)
(* target.                                                                 *)

ReturnFrames == 130
ReturnWindow == 3
ReturnEvents == 3
\* the resolution of the lerp in thousandths of a degree
YawEps == 5

ReturnMessages == {<<46, Unit>>, <<46, 0>>}
ReturnDrags == {0 - 100, 100}

InitReturn == SetupWith({"spread"}, {initMidi(v, Pending, "inputs") : v \in {"bounce"}})

NextReturn ==
    \/ Draw(ReturnFrames, {Rest})
    \/ frameCount < ReturnWindow /\ ControlChange(ReturnEvents, ReturnMessages)
    \/ frameCount < ReturnWindow /\ MouseDragged(ReturnEvents, ReturnDrags)
    \/ frameCount < ReturnWindow /\ KeyPause(ReturnEvents)

\* a step of p.draw, told by the frame counter it advances: the frame leaves
\* what only the event handlers write, and the model and the camera are
\* left or changed as the frame goes
Frame ==
    /\ frameCount < ReturnFrames
    /\ frameCount' = frameCount + 1
    /\ UNCHANGED <<variant, surface, faderMappings, simulationState, faderValues>>
    /\ \/ UNCHANGED <<smoothedValues, organicModel, cameraParams, forceParams,
                       tick, budget>>
       \/ ~UNCHANGED <<smoothedValues, organicModel, cameraParams, forceParams,
                        tick, budget>>

\* the draw loop runs on every animation frame
SpecReturn == InitReturn /\ [][NextReturn]_vars /\ WF_vars(Frame)

\* yaw moved 10% of the way to the target
Lerped(cam) == cam.yRotation + RoundDiv(cam.targetYRotation - cam.yRotation, 10)

\* no more events, and no gesture step on any later frame
Quiet ==
    /\ cameraParams.mouseControl
    /\ frameCount >= ReturnWindow
    /\ \/ simulationState = "paused"
       \/ /\ 2 * Abs(smoothedValues[13] - smoothedValues[14]) <= Unit
          /\ 2 * Abs(faderValues[13] - faderValues[14]) <= Unit

\* C30: while pointer control is on, every frame, running or paused, first
\* moves yaw 10% of the way to targetYRotation, and a gesture step leaves
\* targetYRotation alone; so once the rotate gesture is at most 0.5 and no
\* drag occurs, yaw comes back to targetYRotation and stays there.
C30_YawReturns ==
    /\ [][(frameCount' # frameCount /\ cameraParams.mouseControl)
            => /\ cameraParams'.targetYRotation = cameraParams.targetYRotation
               /\ cameraParams'.yRotation
                    = IF tick'.ran /\ Stepped(tick')
                      THEN JsRem(Lerped(cameraParams) + 360000
                                   + (IF tick'.mp.rotationInput > 0 THEN 15000
                                      ELSE 0 - 15000), 360000)
                      ELSE Lerped(cameraParams)]_vars
    /\ Quiet ~> [](Abs(cameraParams.yRotation - cameraParams.targetYRotation) <= YawEps)

\* gesture steps taken and left behind: yaw is back at a target that a drag
\* moved, after ticks that stepped it
C30_Witness ==
    /\ frameCount = ReturnFrames
    /\ budget.events = ReturnEvents
    /\ simulationState = "running"
    /\ faderValues[13] = 0
    /\ cameraParams.targetYRotation # DeclaredCamera(variant).targetYRotation
    /\ Abs(cameraParams.yRotation - cameraParams.targetYRotation) <= YawEps

====
